---- MODULE Spec2Model ----
(***************************************************************************)
(* The semester and subscription lifecycle engine of the hostel backend:   *)
(* the semesters, semester_enrollments, student_room_assignments, rooms,   *)
(* users and hostel_subscriptions tables, and the handlers and daily jobs  *)
(* that change them.                                                       *)
(*                                                                         *)
(* A handler is one action.  Its statements run in the order of the code;  *)
(* a statement sent on the transaction's own connection (client.query) is  *)
(* undone by ROLLBACK, a statement sent on the pool (pool.query) commits   *)
(* on its own.  The input "fail" names the statement at which the store    *)
(* throws ("none": no statement throws).                                   *)
(***************************************************************************)
EXTENDS Integers, Sequences, FiniteSets, TLC

VARIABLES
    semesters,    \* table semesters: row i is the semester with id i
    enrollments,  \* table semester_enrollments, UNIQUE(semester_id, user_id)
    assignments,  \* table student_room_assignments
    rooms,        \* table rooms: room id -> row
    users,        \* table users, students only: user id -> <<>> or <<hostel_id>>
    profiles,     \* table student_profiles: the user ids that have a row
    payments,     \* table payments, purpose 'booking': the (user_id, semester_id) pairs
    txs,          \* the requests in flight, each on its own connection
    today,        \* the calendar day
    subs,         \* table hostel_subscriptions: row i has id i
    currentSub,   \* hostels.current_subscription_id
    last          \* the last handler run: its name, inputs and what it sent

vars == <<semesters, enrollments, assignments, rooms, users, profiles, payments,
          txs, today, subs, currentSub, last>>

semVars == <<semesters, enrollments, assignments, rooms, users, profiles, payments>>
subVars == <<subs, currentSub>>

----------------------------------------------------------------------------
(* Bounds *)

MaxDay == 2
Days == 0..MaxDay
\* every semester of the model starts on day 0
StartDays == {0}

\* The rows that may exist: two hostels with one room each, two students,
\* two semesters.
Hostels == {1, 2}
Users == {1, 2}
Rooms == {1, 2}
SemSlots == {1, 2}

\* the connections that may hold a request in flight
Txs == {"t1", "t2"}

\* SQL NULL and a present value of a nullable column
NULL == <<>>
Val(x) == <<x>>

----------------------------------------------------------------------------
(* Table semesters *)

SemIds == DOMAIN semesters

\* INSERT INTO semesters (...) VALUES (..., 'upcoming'); is_current DEFAULT false
SemesterCreate(sems, hostelId, startDate, endDate) ==
    Append(sems, [hostel_id |-> hostelId, start_date |-> startDate,
                  end_date |-> endDate, is_current |-> FALSE,
                  status |-> "upcoming"])

\* UPDATE semesters SET is_current = false WHERE hostel_id = $1
UnsetCurrent(sems, hostelId) ==
    [i \in DOMAIN sems |->
        IF sems[i].hostel_id = hostelId
        THEN [sems[i] EXCEPT !.is_current = FALSE] ELSE sems[i]]

\* UPDATE semesters SET is_current = true, status = 'active' WHERE id = $2
SetCurrentRow(sems, semesterId) ==
    [i \in DOMAIN sems |->
        IF i = semesterId
        THEN [sems[i] EXCEPT !.is_current = TRUE, !.status = "active"]
        ELSE sems[i]]

SetCurrentSteps == {"begin", "unset", "set", "commit"}

\* Variant of setAsCurrent without its first UPDATE.
setAsCurrentNoUnset(sems, semesterId, hostelId, fail) ==
    IF fail = "none" THEN SetCurrentRow(sems, semesterId) ELSE sems

\* Variant of setAsCurrent whose UPDATEs commit on their own: a throw after
\* the first one leaves it in place.
setAsCurrentAutocommit(sems, semesterId, hostelId, fail) ==
    LET tx1 == UnsetCurrent(sems, hostelId)
        tx2 == SetCurrentRow(tx1, semesterId)
    IN  IF fail = "none" THEN tx2
        ELSE IF fail \in {"set", "commit"} THEN tx1
        ELSE sems

\* SemesterModel.setAsCurrent: BEGIN; unset; set; COMMIT, all on client.
\* Any throw runs ROLLBACK, which undoes both updates.
setAsCurrent(sems, semesterId, hostelId, fail) ==
    LET tx1 == UnsetCurrent(sems, hostelId)
        tx2 == SetCurrentRow(tx1, semesterId)
    IN  IF fail = "none" THEN tx2 ELSE sems

\* Variant of SemUpdateStatus that also clears is_current when the new
\* status is not 'active'.
SemUpdateStatusClearsCurrent(sems, id, status) ==
    [i \in DOMAIN sems |->
        IF i = id THEN [sems[i] EXCEPT !.status = status,
                                       !.is_current = @ /\ status = "active"]
        ELSE sems[i]]

\* SemesterModel.updateStatus: one UPDATE on the pool
SemUpdateStatus(sems, id, status) ==
    [i \in DOMAIN sems |->
        IF i = id THEN [sems[i] EXCEPT !.status = status] ELSE sems[i]]

----------------------------------------------------------------------------
(* Table semester_enrollments.  A row is identified by its (semester_id,   *)
(* user_id) pair, which the UNIQUE constraint makes a key like its id.     *)

EnrollmentOf(enr, s, u) == {e \in enr : e.semester_id = s /\ e.user_id = u}

\* Variant of enroll with ON CONFLICT DO NOTHING.
enrollDoNothing(enr, s, u, roomId) ==
    IF EnrollmentOf(enr, s, u) # {} THEN enr
    ELSE enr \cup {[semester_id |-> s, user_id |-> u, room_id |-> roomId,
                    enrollment_status |-> "active", completed_at |-> NULL]}

\* INSERT ... ON CONFLICT (semester_id, user_id) DO UPDATE SET enrollment_status = 'active'
enroll(enr, s, u, roomId) ==
    IF EnrollmentOf(enr, s, u) # {}
    THEN {IF e.semester_id = s /\ e.user_id = u
          THEN [e EXCEPT !.enrollment_status = "active"] ELSE e : e \in enr}
    ELSE enr \cup {[semester_id |-> s, user_id |-> u, room_id |-> roomId,
                    enrollment_status |-> "active", completed_at |-> NULL]}

\* SemesterEnrollmentModel.drop: UPDATE semester_enrollments
\*  SET enrollment_status = 'dropped', completed_at = NOW() WHERE id = $1
drop(enr, s, u, now) ==
    {IF e.semester_id = s /\ e.user_id = u
     THEN [e EXCEPT !.enrollment_status = "dropped", !.completed_at = Val(now)]
     ELSE e : e \in enr}

TerminalStatuses == {"completed", "dropped", "transferred"}
EnrollmentStatuses == {"active"} \cup TerminalStatuses

\* Variant of enrollmentUpdateStatus that never writes completed_at.
enrollmentUpdateStatusNoStamp(enr, s, u, status, now) ==
    {IF e.semester_id = s /\ e.user_id = u
     THEN [e EXCEPT !.enrollment_status = status] ELSE e : e \in enr}

\* SemesterEnrollmentModel.updateStatus: UPDATE semester_enrollments
\*  SET enrollment_status = $1, completed_at = CASE WHEN $1 IN ('completed',
\*  'dropped', 'transferred') THEN NOW() ELSE completed_at END WHERE id = $2
enrollmentUpdateStatus(enr, s, u, status, now) ==
    {IF e.semester_id = s /\ e.user_id = u
     THEN [e EXCEPT !.enrollment_status = status,
                    !.completed_at = IF status \in TerminalStatuses
                                     THEN Val(now) ELSE @]
     ELSE e : e \in enr}

TransferSteps == {"begin", "select", "update", "insert", "commit"}

\* UPDATE semester_enrollments SET enrollment_status = 'transferred',
\*  completed_at = NOW() WHERE id = $1
TransferSource(enr, s, u, now) ==
    {IF e.semester_id = s /\ e.user_id = u
     THEN [e EXCEPT !.enrollment_status = "transferred", !.completed_at = Val(now)]
     ELSE e : e \in enr}

\* INSERT INTO semester_enrollments (semester_id, user_id, room_id,
\*  enrollment_status) VALUES ($1, $2, $3, 'active'): the row
TransferTarget(old, newSemesterId) ==
    [semester_id |-> newSemesterId, user_id |-> old.user_id, room_id |-> old.room_id,
     enrollment_status |-> "active", completed_at |-> NULL]

\* the INSERT is refused by the foreign key to semesters or by
\* UNIQUE(semester_id, user_id)
TransferInsertRefused(enr, sems, u, newSemesterId) ==
    \/ newSemesterId \notin DOMAIN sems
    \/ EnrollmentOf(enr, newSemesterId, u) # {}

\* the outcome of transfer
transferResult(enr, sems, s, u, newSemesterId, fail) ==
    IF fail \in {"begin", "select"} THEN "error"
    ELSE IF EnrollmentOf(enr, s, u) = {} THEN "not_found"
    ELSE IF fail = "update" THEN "error"
    ELSE IF TransferInsertRefused(TransferSource(enr, s, u, 0), sems, u, newSemesterId)
         THEN "refused"
    ELSE IF fail # "none" THEN "error"
    ELSE "transferred"

\* Variant of transfer whose new enrollment has no room.
transferWithoutRoom(enr, sems, s, u, newSemesterId, now, fail) ==
    LET res == transferResult(enr, sems, s, u, newSemesterId, fail)
        old == CHOOSE e \in EnrollmentOf(enr, s, u) : TRUE
    IN  [enrollments |-> IF res = "transferred"
                         THEN TransferSource(enr, s, u, now)
                                \cup {[TransferTarget(old, newSemesterId) EXCEPT !.room_id = NULL]}
                         ELSE enr,
         result |-> res]

\* Variant of transfer whose UPDATE commits on its own: it stays when the
\* INSERT or the COMMIT throws.
transferAutocommit(enr, sems, s, u, newSemesterId, now, fail) ==
    LET res == transferResult(enr, sems, s, u, newSemesterId, fail)
        old == CHOOSE e \in EnrollmentOf(enr, s, u) : TRUE
        tx1 == TransferSource(enr, s, u, now)
    IN  [enrollments |-> IF res = "transferred"
                         THEN tx1 \cup {TransferTarget(old, newSemesterId)}
                         ELSE IF res = "refused" \/ (res = "error" /\ fail \in {"insert", "commit"})
                         THEN tx1
                         ELSE enr,
         result |-> res]

\* SemesterEnrollmentModel.transfer: BEGIN; SELECT the enrollment; UPDATE it;
\* INSERT the new one; COMMIT, all on client.  A missing enrollment and
\* every throw run ROLLBACK.
transfer(enr, sems, s, u, newSemesterId, now, fail) ==
    LET res == transferResult(enr, sems, s, u, newSemesterId, fail)
        old == CHOOSE e \in EnrollmentOf(enr, s, u) : TRUE
    IN  [enrollments |-> IF res = "transferred"
                         THEN TransferSource(enr, s, u, now)
                                \cup {TransferTarget(old, newSemesterId)}
                         ELSE enr,
         result |-> res]

\* Variant of CompleteEnrollments without the enrollment_status = 'active' filter.
CompleteEnrollmentsAll(enr, s, now) ==
    {IF e.semester_id = s
     THEN [e EXCEPT !.enrollment_status = "completed", !.completed_at = Val(now)]
     ELSE e : e \in enr}

\* UPDATE semester_enrollments SET enrollment_status = 'completed', completed_at = NOW()
\*  WHERE semester_id = $1 AND enrollment_status = 'active'
CompleteEnrollments(enr, s, now) ==
    {IF e.semester_id = s /\ e.enrollment_status = "active"
     THEN [e EXCEPT !.enrollment_status = "completed", !.completed_at = Val(now)]
     ELSE e : e \in enr}

\* UPDATE student_room_assignments sra SET ended_at = NOW() FROM semester_enrollments se
\*  WHERE sra.semester_id = $1 AND se.semester_id = sra.semester_id
\*    AND se.user_id = sra.user_id AND se.enrollment_status = 'completed'
EndAssignments(asg, enr, s, now) ==
    {IF a.semester_id = s
        /\ \E e \in enr : /\ e.semester_id = s
                          /\ e.user_id = a.user_id
                          /\ e.enrollment_status = "completed"
     THEN [a EXCEPT !.ended_at = Val(now)]
     ELSE a : a \in asg}

----------------------------------------------------------------------------
(* SemesterService: the daily sweep *)

EndSteps == {"begin", "status", "enrollments", "assignments", "commit"}

\* sendSemesterEndNotifications: one mail to every enrolled student of the
\* semester (findBySemester reads every status); a sendEmail that throws is
\* caught per student, and the whole function catches whatever else throws.
sendSemesterEndNotifications(db, s, mailFail) ==
    LET to == {e.user_id : e \in {x \in db.enrollments : x.semester_id = s}}
    IN  [ev |-> "notify", sem |-> s, to |-> to, failed |-> to \cap mailFail,
         semStatus |-> db.semesters[s].status]

\* Variant of endSemester without its outer catch: a throw reaches the loop.
endSemesterRethrows(db, s, now, fail, mailFail) ==
    LET c1  == IF fail \notin {"begin", "status"}
               THEN [db EXCEPT !.semesters = SemUpdateStatus(@, s, "completed")]
               ELSE db
        tx1 == [c1 EXCEPT !.enrollments = CompleteEnrollments(@, s, now)]
        tx2 == [tx1 EXCEPT !.assignments = EndAssignments(@, tx1.enrollments, s, now)]
        out == IF fail = "none" THEN tx2 ELSE c1
    IN  [db  |-> out,
         log |-> IF fail = "none"
                 THEN << [ev |-> "commit", sem |-> s],
                         sendSemesterEndNotifications(out, s, mailFail) >>
                 ELSE << [ev |-> "rollback", sem |-> s] >>,
         threw |-> fail # "none"]

\* Variant of endSemester that sends the notifications before COMMIT.
endSemesterNotifyFirst(db, s, now, fail, mailFail) ==
    LET c1  == IF fail \notin {"begin", "status"}
               THEN [db EXCEPT !.semesters = SemUpdateStatus(@, s, "completed")]
               ELSE db
        tx1 == [c1 EXCEPT !.enrollments = CompleteEnrollments(@, s, now)]
        tx2 == [tx1 EXCEPT !.assignments = EndAssignments(@, tx1.enrollments, s, now)]
        out == IF fail = "none" THEN tx2 ELSE c1
        sent == fail \in {"commit", "none"}
    IN  [db  |-> out,
         log |-> (IF sent THEN << sendSemesterEndNotifications(tx2, s, mailFail) >>
                  ELSE << >>)
                 \o (IF fail = "none" THEN << [ev |-> "commit", sem |-> s] >>
                     ELSE << [ev |-> "rollback", sem |-> s] >>),
         threw |-> FALSE]

\* endSemester: BEGIN on client; SemesterModel.updateStatus on the pool (it
\* commits on its own); the two UPDATEs on client; COMMIT; then the
\* notifications.  A throw runs ROLLBACK on client and is logged.
endSemester(db, s, now, fail, mailFail) ==
    LET begun == fail # "begin"
        c1  == IF begun /\ fail # "status"
               THEN [db EXCEPT !.semesters = SemUpdateStatus(@, s, "completed")]
               ELSE db
        tx1 == [c1 EXCEPT !.enrollments = CompleteEnrollments(@, s, now)]
        tx2 == [tx1 EXCEPT !.assignments = EndAssignments(@, tx1.enrollments, s, now)]
        out == IF fail = "none" THEN tx2 ELSE c1
    IN  [db  |-> out,
         log |-> IF fail = "none"
                 THEN << [ev |-> "commit", sem |-> s],
                         sendSemesterEndNotifications(out, s, mailFail) >>
                 ELSE << [ev |-> "rollback", sem |-> s] >>,
         threw |-> FALSE]   \* the outer catch logs the error and returns

\* Variant of ExpiredSemesters without the status filter.
ExpiredSemestersAnyStatus(sems, now) ==
    {i \in DOMAIN sems : sems[i].end_date < now}

\* Variant of ExpiredSemesters with end_date <= $1.
ExpiredSemestersInclusive(sems, now) ==
    {i \in DOMAIN sems : sems[i].status = "active" /\ sems[i].end_date <= now}

\* SELECT * FROM semesters WHERE status = 'active' AND end_date < $1 (today, 00:00)
ExpiredSemesters(sems, now) ==
    {i \in DOMAIN sems : sems[i].status = "active" /\ sems[i].end_date < now}

SetToSeq(S) ==
    LET RECURSIVE build(_, _)
        build(T, acc) == IF T = {} THEN acc
                         ELSE LET m == CHOOSE x \in T : \A y \in T : x <= y
                              IN  build(T \ {m}, Append(acc, m))
    IN  build(S, <<>>)

\* for (const semester of expiredSemesters.rows) await this.endSemester(semester.id)
\* A call that throws leaves the loop for the catch of checkAndEndSemesters.
RECURSIVE EndEach(_, _, _, _, _, _)
EndEach(db, ids, now, fail, mailFail, log) ==
    IF ids = <<>> THEN [db |-> db, log |-> log]
    ELSE LET r == endSemester(db, Head(ids), now, fail[Head(ids)], mailFail)
         IN  IF r.threw THEN [db |-> r.db, log |-> log \o r.log]
             ELSE EndEach(r.db, Tail(ids), now, fail, mailFail, log \o r.log)

checkAndEndSemesters(db, now, fail, mailFail) ==
    EndEach(db, SetToSeq(ExpiredSemesters(db.semesters, now)), now, fail, mailFail, <<>>)

\* sevenDaysFromNow.setDate(today.getDate() + 7)
ReminderDays == 7

\* Variant of UpcomingSemesters whose window ends before the seventh day.
UpcomingSemestersExclusive(sems, now) ==
    {i \in DOMAIN sems : /\ sems[i].status = "upcoming"
                         /\ sems[i].start_date >= now
                         /\ sems[i].start_date < now + ReminderDays}

\* SELECT * FROM semesters WHERE status = 'upcoming' AND start_date BETWEEN
\* $1 AND $2: start_date is a DATE, so both parameters are read as dates,
\* today and the seventh day after it.
UpcomingSemesters(sems, now) ==
    {i \in DOMAIN sems : /\ sems[i].status = "upcoming"
                         /\ sems[i].start_date >= now
                         /\ sems[i].start_date <= now + ReminderDays}

\* SemesterService.sendUpcomingSemesterReminders: for every selected
\* semester one mail to the user of each of its enrollment rows, whatever
\* the enrollment_status; a mail that fails is caught per student.  Nothing
\* is written.
sendUpcomingSemesterReminders(db, now, mailFail) ==
    {[sem |-> s,
      to |-> {e.user_id : e \in {x \in db.enrollments : x.semester_id = s}},
      failed |-> {e.user_id : e \in {x \in db.enrollments : x.semester_id = s}}
                    \cap mailFail] : s \in UpcomingSemesters(db.semesters, now)}

\* SemesterService.rolloverSemester: every statement on the pool, no
\* transaction.  "done" are the enrollments copied before the throw.
RolloverSteps == {"create", "enroll"}

rolloverSemester(db, oldId, startDate, endDate, fail, done) ==
    LET newId  == Len(db.semesters) + 1
        c1     == [db EXCEPT !.semesters =
                       SemesterCreate(@, db.semesters[oldId].hostel_id, startDate, endDate)]
        active == {e \in db.enrollments :
                       e.semester_id = oldId /\ e.enrollment_status = "active"}
        copy   == IF fail = "enroll" THEN done ELSE active
        newEnr == {[semester_id |-> newId, user_id |-> e.user_id, room_id |-> e.room_id,
                    enrollment_status |-> "active", completed_at |-> NULL] : e \in copy}
    IN  IF fail = "create" THEN db
        ELSE [c1 EXCEPT !.enrollments = @ \cup newEnr]

----------------------------------------------------------------------------
(* Student registration and removal, room update *)

\* SELECT id FROM semesters WHERE hostel_id = $1 AND is_current = true
\*   AND status = 'active' LIMIT 1
requireActiveSemester(sems, hostelId) ==
    {i \in DOMAIN sems : /\ sems[i].hostel_id = hostelId
                         /\ sems[i].is_current
                         /\ sems[i].status = "active"}

\* COUNT(sra.id) over the room's assignments with status = 'active'
Occupants(asg, r) == Cardinality({a \in asg : a.room_id = r /\ a.status = "active"})

NewAssignmentId(asg) ==
    CHOOSE n \in 1..(Cardinality(asg) + 1) : \A a \in asg : a.id # n

\* Variant of marksOccupied without the capacity test.
marksOccupiedAnyCapacity(room) == room.status = "available"

\* if (room.status === 'available' && capacity === 1): the room is marked
\* 'occupied'
marksOccupied(room) == room.status = "available" /\ room.capacity = 1

RegisterSteps == {"user", "profile", "assignment", "room", "enrollment", "payment", "commit"}

\* POST /students: why the request is turned away ("none": it is not).  The
\* users row is read first, the room with its occupants after the user and
\* the profile are written.
registerRejection(db, hostelId, u, r) ==
    IF ~(db.users[u] = NULL \/ db.users[u] = Val(hostelId)) THEN "other_hostel"
    ELSE IF db.rooms[r].hostel_id # hostelId THEN "invalid_room"
    ELSE IF Occupants(db.assignments, r) >= db.rooms[r].capacity THEN "full"
    ELSE "none"

\* POST /students: the store after each statement of the transaction, in the
\* order of the code: users, student_profiles, student_room_assignments
\* (insert, or move the student's active assignment of the semester), rooms
\* (single rooms become 'occupied'), semester_enrollments (upsert), payments.
registerStages(db, hostelId, semId, u, r) ==
    LET tx1      == [db EXCEPT !.users[u] = Val(hostelId)]
        tx1p     == [tx1 EXCEPT !.profiles = @ \cup {u}]
        capacity == db.rooms[r].capacity
        existing == {a \in tx1p.assignments :
                        a.user_id = u /\ a.semester_id = semId /\ a.status = "active"}
        tx2      == IF existing = {}
                    THEN [tx1p EXCEPT !.assignments = @ \cup
                            {[id |-> NewAssignmentId(tx1p.assignments), user_id |-> u,
                              room_id |-> r, semester_id |-> semId,
                              status |-> "active", ended_at |-> NULL]}]
                    ELSE LET x == CHOOSE a \in existing : \A b \in existing : a.id <= b.id
                         IN  [tx1p EXCEPT !.assignments =
                                {IF a.id = x.id THEN [a EXCEPT !.room_id = r] ELSE a : a \in @}]
        tx3      == IF marksOccupied(db.rooms[r])
                    THEN [tx2 EXCEPT !.rooms[r].status = "occupied"]
                    ELSE tx2
        tx4      == [tx3 EXCEPT !.enrollments = enroll(@, semId, u, Val(r))]
        tx5      == [tx4 EXCEPT !.payments = @ \cup {[user_id |-> u, semester_id |-> semId]}]
    IN  [begin |-> db, user |-> tx1, profile |-> tx1p, assignment |-> tx2,
         room |-> tx3, enrollment |-> tx4, payment |-> tx5]

\* the result of the request: its HTTP outcome
registerResult(db, hostelId, u, r, fail) ==
    LET why == registerRejection(db, hostelId, u, r)
    IN  IF fail = "user" THEN "error"
        ELSE IF why = "other_hostel" THEN why
        ELSE IF fail = "profile" THEN "error"
        ELSE IF why # "none" THEN why
        ELSE IF fail # "none" THEN "error"
        ELSE "created"

\* Variant of registerStudent whose statements commit on their own: what was
\* written before the rejection or the throw stays.
registerStudentAutocommit(db, hostelId, semId, u, r, fail) ==
    LET st  == registerStages(db, hostelId, semId, u, r)
        res == registerResult(db, hostelId, u, r, fail)
        out == IF res = "created" THEN st.payment
               ELSE IF res = "other_hostel" \/ fail = "user" THEN db
               ELSE IF res \in {"invalid_room", "full"} \/ fail = "assignment" THEN st.profile
               ELSE IF fail = "profile" THEN st.user
               ELSE IF fail = "room" THEN st.assignment
               ELSE IF fail = "enrollment" THEN st.room
               ELSE IF fail = "payment" THEN st.enrollment
               ELSE st.payment
    IN  [db |-> out, result |-> res]

\* POST /students once the caller's hostel and its active semester are known.
\* Every statement after BEGIN is on client; every rejection and every throw
\* runs ROLLBACK.
registerStudent(db, hostelId, semId, u, r, fail) ==
    LET res == registerResult(db, hostelId, u, r, fail)
    IN  [db |-> IF res = "created"
                THEN registerStages(db, hostelId, semId, u, r).payment
                ELSE db,
         result |-> res]

\* DELETE /students/:id: end the student's active assignments, delete the
\* user; the users row takes its assignments and enrollments with it
\* (ON DELETE CASCADE).
deleteStudent(db, u, now) ==
    LET tx1 == [db EXCEPT !.assignments =
                   {IF a.user_id = u /\ a.status = "active"
                    THEN [a EXCEPT !.status = "ended", !.ended_at = Val(now)]
                    ELSE a : a \in @}]
    IN  [tx1 EXCEPT !.users[u] = NULL,
                    !.profiles = @ \ {u},
                    !.payments = {p \in @ : p.user_id # u},
                    !.assignments = {a \in @ : a.user_id # u},
                    !.enrollments = {e \in @ : e.user_id # u}]

\* capacity && capacity >= 1 && capacity <= 4
MinCapacity == 1
MaxCapacity == 4
RoomStatuses == {"available", "occupied", "maintenance", "reserved"}

\* PUT /rooms/:id with body {status, capacity}; NULL: the field is absent.
updateRoom(db, r, status, capacity) ==
    LET refused == /\ status = Val("available")
                   /\ Occupants(db.assignments, r) >= db.rooms[r].capacity
        roomCapacity == IF capacity # NULL /\ capacity[1] >= MinCapacity
                                           /\ capacity[1] <= MaxCapacity
                        THEN capacity ELSE NULL
        cap == IF roomCapacity = NULL THEN db.rooms[r].capacity ELSE roomCapacity[1]
        st  == IF status = NULL THEN db.rooms[r].status ELSE status[1]
    IN  IF refused THEN [db |-> db, result |-> "refused"]
        ELSE [db |-> [db EXCEPT !.rooms[r].capacity = cap, !.rooms[r].status = st],
              result |-> "updated"]

----------------------------------------------------------------------------
(* SubscriptionNotificationService and the subscription routes.  A row of   *)
(* hostel_subscriptions is [hostel_id, end_date, status]; end_date is a     *)
(* DATE, read back as the midnight that starts the day.                     *)

SubSlots == {1, 2}
\* a plan's duration, in days of the model (endDate.setMonth(+ duration_months))
PlanDays == {1, 3}

\* users WHERE hostel_id = $1 AND role IN ('hostel_admin', 'custodian'):
\* hostel 1 has an admin, hostel 2 has nobody
Staff == [h \in Hostels |-> IF h = 1 THEN {"admin1"} ELSE {}]

\* HostelSubscriptionModel.create: one INSERT on the pool
SubscriptionCreate(tbl, hostelId, endDate) ==
    Append(tbl, [hostel_id |-> hostelId, end_date |-> endDate, status |-> "active"])

\* Math.ceil(a / b) for b > 0
CeilDiv(a, b) == -((-a) \div b)

\* the job runs at 09:00; a day has 24 hours
CronHour == 9
HoursPerDay == 24

\* daysLeft = Math.ceil((endDate.getTime() - now.getTime()) / (1000*60*60*24))
\* on day "day" at CronHour o'clock, in hours
DaysLeft(endDate, day) ==
    CeilDiv(endDate * HoursPerDay - (day * HoursPerDay + CronHour), HoursPerDay)

notificationDays == {30, 15, 7, 3, 1}

\* WHERE hs.status = 'active'
ActiveSubscriptions(tbl) == {i \in DOMAIN tbl : tbl[i].status = "active"}

\* ORDER BY hs.end_date ASC: every order of the rows that the sort allows
\* (rows with the same end_date come in any order)
OrdersByEndDate(tbl, S) ==
    {o \in [1..Cardinality(S) -> S] :
        /\ \A i, j \in DOMAIN o : i # j => o[i] # o[j]
        /\ \A i, j \in DOMAIN o : i < j => tbl[o[i]].end_date <= tbl[o[j]].end_date}

SubSteps == {"lookup", "update"}

\* sendExpiringNotification: the staff lookup and one mail per member; a
\* lookup that throws is caught here, a mail that throws is caught per member.
sendExpiringNotification(tbl, s, daysLeft, fail, mailFail) ==
    LET to == IF fail = "lookup" THEN {} ELSE Staff[tbl[s].hostel_id]
    IN  [ev |-> "expiring", sub |-> s, days |-> daysLeft, to |-> to,
         failed |-> to \cap mailFail, status |-> tbl[s].status]

\* sendExpiredNotification: the same for the expired notice.  "status" is
\* the status of the row in the store when the mails go out.
sendExpiredNotification(tbl, s, fail, mailFail) ==
    LET to == IF fail = "lookup" THEN {} ELSE Staff[tbl[s].hostel_id]
    IN  [ev |-> "expired", sub |-> s, days |-> 0, to |-> to,
         failed |-> to \cap mailFail, status |-> tbl[s].status]

\* UPDATE hostel_subscriptions SET status = 'expired' WHERE id = $2 (pool)
MarkExpired(tbl, s) == [tbl EXCEPT ![s].status = "expired"]

\* Variant of NotifyOne that runs the UPDATE before the expired notice.
NotifyOneUpdateFirst(tbl, s, day, fail, mailFail) ==
    LET daysLeft == DaysLeft(tbl[s].end_date, day)
        l1 == IF daysLeft \in notificationDays
              THEN << sendExpiringNotification(tbl, s, daysLeft, fail, mailFail) >>
              ELSE << >>
        isExpired == daysLeft < 0 /\ tbl[s].status = "active"
        threw == isExpired /\ fail = "update"
        marked == IF isExpired /\ ~threw THEN MarkExpired(tbl, s) ELSE tbl
        l2 == IF isExpired /\ ~threw
              THEN << sendExpiredNotification(marked, s, fail, mailFail) >>
              ELSE << >>
    IN  [subs |-> marked, log |-> l1 \o l2, threw |-> threw]

\* The body of the loop of checkAndNotifyExpiringSubscriptions for one row:
\* the expiring notice on a notification day; for daysLeft < 0 the expired
\* notice and then the UPDATE.  An UPDATE that throws is not caught here.
NotifyOne(tbl, s, day, fail, mailFail) ==
    LET daysLeft == DaysLeft(tbl[s].end_date, day)
        l1 == IF daysLeft \in notificationDays
              THEN << sendExpiringNotification(tbl, s, daysLeft, fail, mailFail) >>
              ELSE << >>
        isExpired == daysLeft < 0 /\ tbl[s].status = "active"
        l2 == IF isExpired
              THEN << sendExpiredNotification(tbl, s, fail, mailFail) >>
              ELSE << >>
        threw == isExpired /\ fail = "update"
    IN  [subs |-> IF isExpired /\ ~threw THEN MarkExpired(tbl, s) ELSE tbl,
         log |-> l1 \o l2,
         threw |-> threw]

\* for (const sub of subscriptions.rows) { ... }; a throw leaves the loop for
\* the catch of checkAndNotifyExpiringSubscriptions.  "seen" are the rows the
\* loop has taken up.
RECURSIVE NotifyEach(_, _, _, _, _, _, _)
NotifyEach(tbl, order, day, fail, mailFail, log, seen) ==
    IF order = << >> THEN [subs |-> tbl, log |-> log, seen |-> seen]
    ELSE LET s == Head(order)
             r == NotifyOne(tbl, s, day, fail[s], mailFail)
         IN  IF r.threw
             THEN [subs |-> r.subs, log |-> log \o r.log, seen |-> seen \cup {s}]
             ELSE NotifyEach(r.subs, Tail(order), day, fail, mailFail,
                             log \o r.log, seen \cup {s})

checkAndNotifyExpiringSubscriptions(tbl, order, day, fail, mailFail) ==
    NotifyEach(tbl, order, day, fail, mailFail, << >>, {})

OnboardSteps == {"insert", "update", "commit"}

\* POST /hostels, the subscription part: INSERT INTO hostel_subscriptions
\* and UPDATE hostels SET current_subscription_id, both on client, then
\* COMMIT.  A throw runs ROLLBACK on client.
onboard(tbl, cur, hostelId, endDate, fail) ==
    LET c1 == SubscriptionCreate(tbl, hostelId, endDate)
    IN  IF fail = "none"
        THEN [subs |-> c1, currentSub |-> [cur EXCEPT ![hostelId] = Val(Len(c1))]]
        ELSE [subs |-> tbl, currentSub |-> cur]

RenewSteps == {"begin", "create", "update", "commit"}

\* POST /subscription-plans/hostel/:hostelId/renew: BEGIN on client; the
\* INSERT on the pool; UPDATE hostels SET current_subscription_id on client;
\* COMMIT.  A throw runs ROLLBACK on client.
renew(tbl, cur, hostelId, endDate, fail) ==
    LET created == fail \notin {"begin", "create"}
        c1 == IF created THEN SubscriptionCreate(tbl, hostelId, endDate) ELSE tbl
    IN  [subs |-> c1,
         currentSub |-> IF fail = "none" THEN [cur EXCEPT ![hostelId] = Val(Len(c1))]
                        ELSE cur]

----------------------------------------------------------------------------
Db == [semesters |-> semesters, enrollments |-> enrollments,
       assignments |-> assignments, rooms |-> rooms, users |-> users,
       profiles |-> profiles, payments |-> payments]

SetDb(db) ==
    /\ semesters' = db.semesters
    /\ enrollments' = db.enrollments
    /\ assignments' = db.assignments
    /\ rooms' = db.rooms
    /\ users' = db.users
    /\ profiles' = db.profiles
    /\ payments' = db.payments

\* An empty store on day 1; room r belongs to hostel r, room 1 takes two
\* students and room 2 one.
Init ==
    /\ semesters = <<>>
    /\ enrollments = {}
    /\ assignments = {}
    /\ rooms = [r \in Rooms |-> [hostel_id |-> r,
                                 capacity |-> IF r = 1 THEN 2 ELSE 1,
                                 status |-> "available"]]
    /\ users = [u \in Users |-> NULL]
    /\ profiles = {}
    /\ payments = {}
    /\ txs = [t \in Txs |-> [pc |-> "idle"]]
    /\ today = 1
    /\ subs = <<>>
    /\ currentSub = [h \in Hostels |-> NULL]
    /\ last = [op |-> "init"]

\* POST /semesters: end_date > start_date is checked by the route
CreateSemesterIn(hostels) ==
    /\ Len(semesters) < Cardinality(SemSlots)
    /\ \E h \in hostels, s \in StartDays, e \in Days :
        /\ e > s
        /\ semesters' = SemesterCreate(semesters, h, s, e)
        /\ last' = [op |-> "createSemester"]
    /\ UNCHANGED <<enrollments, assignments, rooms, users, profiles, payments,
                     txs, today, subs, currentSub>>

CreateSemester == CreateSemesterIn(Hostels)

\* POST /semesters/:semesterId/set-current: the route reads the semester and
\* passes its own hostel_id.
SetCurrentWith(steps) ==
    \E id \in SemIds, fail \in steps :
        /\ semesters' = setAsCurrent(semesters, id, semesters[id].hostel_id, fail)
        /\ last' = [op |-> "setAsCurrent", sem |-> id, fail |-> fail]
        /\ UNCHANGED <<enrollments, assignments, rooms, users, profiles, payments,
                     txs, today, subs, currentSub>>

SetCurrent == SetCurrentWith(SetCurrentSteps \cup {"none"})

\* the same request when no statement throws
SetCurrentDone == SetCurrentWith({"none"})

\* SemesterModel.setAsCurrent(semesterId, hostelId) called with any pair of
\* arguments: an id that has no row (the semester was deleted after the
\* route read it), or a hostel that is not the semester's.
SetCurrentCall ==
    \E id \in SemSlots, h \in Hostels, fail \in SetCurrentSteps \cup {"none"} :
        /\ semesters' = setAsCurrent(semesters, id, h, fail)
        /\ last' = [op |-> "setAsCurrentCall", sem |-> id, hostel |-> h, fail |-> fail]
        /\ UNCHANGED <<enrollments, assignments, rooms, users, profiles, payments,
                     txs, today, subs, currentSub>>

\* PATCH /semesters/:id/status
UpdateSemesterStatus ==
    \E id \in SemIds, status \in {"upcoming", "active", "completed", "cancelled"} :
        /\ semesters' = SemUpdateStatus(semesters, id, status)
        /\ last' = [op |-> "updateStatus"]
        /\ UNCHANGED <<enrollments, assignments, rooms, users, profiles, payments,
                     txs, today, subs, currentSub>>

\* POST /semesters/:semesterId/rollover
RolloverSemester ==
    /\ Len(semesters) < Cardinality(SemSlots)
    /\ \E old \in SemIds, s \in StartDays, e \in Days, fail \in RolloverSteps \cup {"none"} :
        LET active == {x \in enrollments :
                          x.semester_id = old /\ x.enrollment_status = "active"}
        IN  /\ e > s
            /\ fail = "enroll" => active # {}
            /\ \E done \in SUBSET active :
                /\ fail = "enroll" => done # active
                /\ fail # "enroll" => done = {}
                /\ SetDb(rolloverSemester(Db, old, s, e, fail, done))
                /\ last' = [op |-> "rolloverSemester", old |-> old, fail |-> fail]
    /\ UNCHANGED <<txs, today, subs, currentSub>>

\* cron 0 8 * * *: SemesterService.checkAndEndSemesters.  fail[s] is the
\* statement that throws while semester s is ended, mailFail the students
\* whose mail cannot be sent.  "rerun": the run directly follows a run that
\* ended at least one semester and in which nothing threw.
CheckAndEndSemestersWith(steps, mailFails) ==
    LET expired == ExpiredSemesters(semesters, today)
    IN  \E fail \in [expired -> steps], mailFail \in mailFails :
            LET r == checkAndEndSemesters(Db, today, fail, mailFail)
            IN  /\ SetDb(r.db)
                /\ last' = [op |-> "checkAndEndSemesters", expired |-> expired,
                            fail |-> fail, log |-> r.log,
                            rerun |-> /\ last.op = "checkAndEndSemesters"
                                      /\ last.expired # {}
                                      /\ \A s \in last.expired : last.fail[s] = "none"]
                /\ UNCHANGED <<txs, today, subs, currentSub>>

CheckAndEndSemesters == CheckAndEndSemestersWith(EndSteps \cup {"none"}, {{}, Users})

\* the same run when no statement throws and every mail is sent
CheckAndEndSemestersDone == CheckAndEndSemestersWith({"none"}, {{}})

\* POST /students by the staff of hostel h
RegisterStudentOf(hostels, students, roomIds, steps) ==
    \E h \in hostels, u \in students, r \in roomIds, fail \in steps :
        \E semId \in requireActiveSemester(semesters, h) :
            LET res == registerStudent(Db, h, semId, u, r, fail)
            IN  /\ SetDb(res.db)
                /\ last' = [op |-> "registerStudent", result |-> res.result]
                /\ UNCHANGED <<txs, today, subs, currentSub>>

RegisterStudentWith(steps) == RegisterStudentOf(Hostels, Users, Rooms, steps)

\* the request when no statement throws
RegisterStudent == RegisterStudentWith({"none"})

\* the request for student 1 and room 1 of hostel 1 when no statement throws
RegisterStudentOne == RegisterStudentOf({1}, {1}, {1}, {"none"})

\* POST /semesters/:semesterId/enrollments with body {user_id, room_id}.
\* "before" is the status the pair's enrollment had ("absent": none).  The
\* foreign key to users refuses a user_id that has no row.
EnrollWith(roomIds) ==
    \E s \in SemIds, u \in Users, roomId \in roomIds :
        LET was == EnrollmentOf(enrollments, s, u)
            before == IF was = {} THEN "absent"
                      ELSE (CHOOSE e \in was : TRUE).enrollment_status
            refused == users[u] = NULL
        IN  /\ enrollments' = IF refused THEN enrollments
                               ELSE enroll(enrollments, s, u, roomId)
            /\ last' = [op |-> "enroll", sem |-> s, user |-> u, before |-> before,
                        result |-> IF refused THEN "error" ELSE "created"]
            /\ UNCHANGED <<semesters, assignments, rooms, users, profiles, payments,
                           txs, today, subs, currentSub>>

Enroll == EnrollWith({NULL} \cup {Val(r) : r \in Rooms})

\* the request without a room_id
EnrollNoRoom == EnrollWith({NULL})

\* the request without a room_id or for room 1
EnrollRoomOne == EnrollWith({NULL, Val(1)})

\* PATCH /semesters/enrollments/:enrollmentId/status with body {status}
UpdateEnrollmentStatus ==
    \E e \in enrollments, status \in EnrollmentStatuses :
        /\ enrollments' = enrollmentUpdateStatus(enrollments, e.semester_id, e.user_id,
                                                  status, today)
        /\ last' = [op |-> "updateEnrollmentStatus"]
        /\ UNCHANGED <<semesters, assignments, rooms, users, profiles, payments,
                       txs, today, subs, currentSub>>

\* POST /semesters/enrollments/:enrollmentId/transfer with body
\* {new_semester_id}; the enrollment id stands for a (semester, user) pair
\* that may have no row, the new semester id may have no row either.
TransferWith(steps) ==
    \E s \in SemSlots, u \in Users, new \in SemSlots, fail \in steps :
        LET r == transfer(enrollments, semesters, s, u, new, today, fail)
        IN  /\ enrollments' = r.enrollments
            /\ last' = [op |-> "transfer", sem |-> s, user |-> u, new |-> new,
                        result |-> r.result]
            /\ UNCHANGED <<semesters, assignments, rooms, users, profiles, payments,
                           txs, today, subs, currentSub>>

Transfer == TransferWith(TransferSteps \cup {"none"})

\* the request when no statement throws
TransferDone == TransferWith({"none"})

RegisterStudentAny == RegisterStudentWith(RegisterSteps \cup {"none"})

\* POST /semesters/enrollments/:enrollmentId/drop
DropEnrollment ==
    \E e \in enrollments :
        /\ enrollments' = drop(enrollments, e.semester_id, e.user_id, today)
        /\ last' = [op |-> "drop"]
        /\ UNCHANGED <<semesters, assignments, rooms, users, profiles, payments,
                        txs, today, subs, currentSub>>

\* DELETE /students/:id
DeleteStudent ==
    \E u \in Users :
        /\ users[u] # NULL
        /\ SetDb(deleteStudent(Db, u, today))
        /\ last' = [op |-> "deleteStudent"]
        /\ UNCHANGED <<txs, today, subs, currentSub>>

\* PUT /rooms/:id by the admin of the room's hostel
UpdateRoomWith(statuses, capacities) ==
    \E r \in Rooms, status \in {NULL} \cup {Val(s) : s \in statuses},
       capacity \in {NULL} \cup {Val(c) : c \in capacities} :
        LET res == updateRoom(Db, r, status, capacity)
        IN  /\ SetDb(res.db)
            /\ last' = [op |-> "updateRoom", result |-> res.result]
            /\ UNCHANGED <<txs, today, subs, currentSub>>

\* the requests of the model: status absent or 'available', capacity absent,
\* one of the capacities of the model's rooms, or one outside the accepted range
UpdateRoom == UpdateRoomWith({"available"}, {1, 2, MaxCapacity + 1})

\* POST /subscription-plans/hostel/:hostelId/subscribe
Subscribe ==
    /\ Len(subs) < Cardinality(SubSlots)
    /\ \E h \in Hostels, d \in PlanDays :
        /\ subs' = SubscriptionCreate(subs, h, today + d)
        /\ last' = [op |-> "subscribe"]
    /\ UNCHANGED <<semVars, txs, today, currentSub>>

\* cron 0 8 * * *, second call: sendUpcomingSemesterReminders
SendReminders ==
    \E mailFail \in {{}, Users} :
        /\ last' = [op |-> "sendReminders",
                    log |-> sendUpcomingSemesterReminders(Db, today, mailFail)]
        /\ UNCHANGED <<semVars, subVars, txs, today>>

\* POST /hostels for hostel h, which has no subscription yet
Onboard ==
    /\ Len(subs) < Cardinality(SubSlots)
    /\ \E h \in Hostels, d \in PlanDays, fail \in OnboardSteps \cup {"none"} :
        LET r == onboard(subs, currentSub, h, today + d, fail)
        IN  /\ currentSub[h] = NULL
            /\ \A i \in DOMAIN subs : subs[i].hostel_id # h
            /\ subs' = r.subs
            /\ currentSub' = r.currentSub
            /\ last' = [op |-> "onboard"]
    /\ UNCHANGED <<semVars, txs, today>>

\* POST /subscription-plans/hostel/:hostelId/renew
Renew ==
    /\ Len(subs) < Cardinality(SubSlots)
    /\ \E h \in Hostels, d \in PlanDays, fail \in RenewSteps \cup {"none"} :
        LET r == renew(subs, currentSub, h, today + d, fail)
        IN  /\ subs' = r.subs
            /\ currentSub' = r.currentSub
            /\ last' = [op |-> "renew", hostel |-> h, fail |-> fail]
    /\ UNCHANGED <<semVars, txs, today>>

\* cron 0 9 * * *: checkAndNotifyExpiringSubscriptions.  fail[s] is what
\* throws while row s is handled, mailFail the staff whose mail cannot be
\* sent.
CheckSubscriptions ==
    LET active == ActiveSubscriptions(subs)
    IN  \E order \in OrdersByEndDate(subs, active),
           fail \in [active -> SubSteps \cup {"none"}],
           mailFail \in {{}, {"admin1"}} :
            LET r == checkAndNotifyExpiringSubscriptions(subs, order, today, fail, mailFail)
            IN  /\ subs' = r.subs
                /\ last' = [op |-> "checkSubscriptions", order |-> order,
                            fail |-> fail, log |-> r.log, seen |-> r.seen]
                /\ UNCHANGED <<semVars, txs, today, currentSub>>

\* midnight
AdvanceDay ==
    /\ today < MaxDay
    /\ today' = today + 1
    /\ last' = [op |-> "advanceDay"]
    /\ UNCHANGED <<semVars, subVars, txs>>

----------------------------------------------------------------------------
(* The specifications.  SpecCurrent: the semester table under every         *)
(* operation that writes it, set-current with a throw at each statement.    *)
(* SpecSweep: semesters with their students under the daily sweep, each     *)
(* ending with a throw at each statement.  SpecEnd: the sweep that ends     *)
(* every semester it finds, over enrollments that students have dropped.    *)
(* SpecRooms: the rooms under registration, removal, room update and sweep. *)
(* SpecSub: the subscriptions under the daily notification job.             *)

NextCurrent ==
    \/ CreateSemester
    \/ SetCurrent
    \/ UpdateSemesterStatus
    \/ RolloverSemester
    \/ CheckAndEndSemesters
    \/ AdvanceDay

SpecCurrent == Init /\ [][NextCurrent]_vars

NextCall ==
    \/ CreateSemester
    \/ SetCurrentCall

SpecCall == Init /\ [][NextCall]_vars

NextSweep ==
    \/ CreateSemester
    \/ SetCurrentDone
    \/ RegisterStudent
    \/ CheckAndEndSemesters
    \/ AdvanceDay

SpecSweep == Init /\ [][NextSweep]_vars

\* a run of the sweep in which a statement of an ending may throw and every
\* mail is sent
CheckAndEndSemestersMailed == CheckAndEndSemestersWith(EndSteps \cup {"none"}, {{}})

\* Hostel 1 has created one semester; nothing else has happened.
InitRetry ==
    /\ \E e \in Days \ StartDays :
          semesters = SemesterCreate(<<>>, 1, 0, e)
    /\ enrollments = {}
    /\ assignments = {}
    /\ rooms = [r \in Rooms |-> [hostel_id |-> r,
                                 capacity |-> IF r = 1 THEN 2 ELSE 1,
                                 status |-> "available"]]
    /\ users = [u \in Users |-> NULL]
    /\ profiles = {}
    /\ payments = {}
    /\ txs = [t \in Txs |-> [pc |-> "idle"]]
    /\ today = 1
    /\ subs = <<>>
    /\ currentSub = [h \in Hostels |-> NULL]
    /\ last = [op |-> "init"]

\* the staff of hostel 1 register a student into room 1
RegisterStudentRoomOne == RegisterStudentOf({1}, Users, {1}, {"none"})

NextRetry ==
    \/ SetCurrentDone
    \/ RegisterStudentRoomOne
    \/ CheckAndEndSemestersMailed
    \/ AdvanceDay

\* The cron job fires every day: the day goes on while the calendar of the
\* model lasts, and a run of the sweep in which no statement throws keeps
\* coming.
SpecRetry ==
    /\ InitRetry /\ [][NextRetry]_vars
    /\ WF_vars(AdvanceDay) /\ WF_vars(CheckAndEndSemestersDone)

NextEnd ==
    \/ CreateSemester
    \/ SetCurrentDone
    \/ RegisterStudent
    \/ DropEnrollment
    \/ CheckAndEndSemestersDone
    \/ AdvanceDay

SpecEnd == Init /\ [][NextEnd]_vars

NextRooms ==
    \/ CreateSemester
    \/ SetCurrentDone
    \/ RegisterStudent
    \/ DeleteStudent
    \/ UpdateRoom
    \/ CheckAndEndSemestersDone
    \/ AdvanceDay

SpecRooms == Init /\ [][NextRooms]_vars

\* Variant of UnsetCurrentMatches with AND is_current = true.
UnsetCurrentMatchesCurrentOnly(sems, hostelId) ==
    {i \in DOMAIN sems : sems[i].hostel_id = hostelId /\ sems[i].is_current}

\* the rows matched, and locked until COMMIT, by
\* UPDATE semesters SET is_current = false WHERE hostel_id = $1
UnsetCurrentMatches(sems, hostelId) ==
    {i \in DOMAIN sems : sems[i].hostel_id = hostelId}

\* Two setAsCurrent calls in flight, each on its own client under READ
\* COMMITTED.  txs[t] holds the call of client t: its target, the rows its
\* UPDATEs have locked, and whether it overlapped a call for another
\* semester of the same hostel.  An UPDATE waits while another client holds
\* the lock of a row it matches; the writes reach the table at COMMIT.
SetCurrentPcs == {"began", "unset", "set"}

\* the rows locked by clients other than t
LockedByOthers(t) ==
    {i \in SemSlots : \E o \in Txs \ {t} : txs[o].pc \in {"unset", "set"} /\ i \in txs[o].locks}

\* BEGIN, after the route has read the semester
SetCurrentBegin ==
    \E t \in Txs, id \in SemIds :
        LET h     == semesters[id].hostel_id
            rival == {o \in Txs \ {t} : /\ txs[o].pc \in SetCurrentPcs
                                         /\ txs[o].h = h
                                         /\ txs[o].sem # id}
        IN  /\ txs[t].pc = "idle"
            /\ txs' = [o \in Txs |->
                         IF o = t THEN [pc |-> "began", sem |-> id, h |-> h, locks |-> {},
                                        raced |-> rival # {}]
                         ELSE IF o \in rival THEN [txs[o] EXCEPT !.raced = TRUE]
                         ELSE txs[o]]
            /\ last' = [op |-> "setCurrentBegin"]
            /\ UNCHANGED <<semVars, today, subs, currentSub>>

\* UPDATE semesters SET is_current = false WHERE hostel_id = $1
SetCurrentUnset ==
    \E t \in Txs :
        /\ txs[t].pc = "began"
        /\ LET rows == UnsetCurrentMatches(semesters, txs[t].h)
           IN  /\ rows \cap LockedByOthers(t) = {}
               /\ txs' = [txs EXCEPT ![t].pc = "unset", ![t].locks = rows]
        /\ last' = [op |-> "setCurrentUnset"]
        /\ UNCHANGED <<semVars, today, subs, currentSub>>

\* UPDATE semesters SET is_current = true, status = 'active' WHERE id = $2
SetCurrentSet ==
    \E t \in Txs :
        /\ txs[t].pc = "unset"
        /\ txs[t].sem \notin LockedByOthers(t)
        /\ txs' = [txs EXCEPT ![t].pc = "set", ![t].locks = @ \cup {txs[t].sem}]
        /\ last' = [op |-> "setCurrentSet"]
        /\ UNCHANGED <<semVars, today, subs, currentSub>>

\* COMMIT: the rows matched by the first UPDATE are not current, the target
\* is current and 'active'
SetCurrentCommit ==
    \E t \in Txs :
        /\ txs[t].pc = "set"
        /\ LET x     == txs[t]
               unset == [i \in DOMAIN semesters |->
                           IF i \in x.locks
                           THEN [semesters[i] EXCEPT !.is_current = FALSE]
                           ELSE semesters[i]]
           IN  /\ semesters' = SetCurrentRow(unset, x.sem)
               /\ last' = [op |-> "setCurrentCommit", sem |-> x.sem, raced |-> x.raced]
        /\ txs' = [txs EXCEPT ![t] = [pc |-> "idle"]]
        /\ UNCHANGED <<enrollments, assignments, rooms, users, profiles, payments,
                       today, subs, currentSub>>

NextRaceCurrent ==
    \/ CreateSemester
    \/ SetCurrentBegin
    \/ SetCurrentUnset
    \/ SetCurrentSet
    \/ SetCurrentCommit

SpecRaceCurrent == Init /\ [][NextRaceCurrent]_vars

\* Two POST /students requests in flight, each on its own client under READ
\* COMMITTED: a statement reads what is committed when it runs, the writes
\* of a transaction reach the tables at its COMMIT.  txs[t] holds the
\* request of client t: its inputs, what its room check read, and the row
\* lock its UPDATE rooms holds until COMMIT.  The two requests are for
\* different students.
RegisterPcs == {"began", "checked", "written"}

\* another client holds the row lock of room r
RoomLocked(t, r) ==
    \E o \in Txs \ {t} : txs[o].pc = "written" /\ txs[o].lock /\ txs[o].r = r

\* BEGIN; SELECT * FROM users WHERE email = $1; INSERT or UPDATE users;
\* student_profiles.  An account of another hostel is turned away.
RegisterBegin ==
    \E t \in Txs, h \in Hostels, u \in Users, r \in Rooms :
        \E semId \in requireActiveSemester(semesters, h) :
            /\ txs[t].pc = "idle"
            /\ \A o \in Txs \ {t} : txs[o].pc \in RegisterPcs => txs[o].u # u
            /\ IF ~(users[u] = NULL \/ users[u] = Val(h))
               THEN /\ last' = [op |-> "registerStudent", result |-> "other_hostel"]
                    /\ UNCHANGED txs
               ELSE /\ txs' = [txs EXCEPT ![t] = [pc |-> "began", h |-> h, sem |-> semId,
                                                  u |-> u, r |-> r]]
                    /\ last' = [op |-> "registerBegin"]
            /\ UNCHANGED <<semVars, today, subs, currentSub>>

\* the room check: SELECT ... COUNT(sra.id) ... over the committed rows;
\* ROLLBACK when the room is not of the hostel or is full
RegisterCheck ==
    \E t \in Txs :
        /\ txs[t].pc = "began"
        /\ LET x   == txs[t]
               why == registerRejection(Db, x.h, x.u, x.r)
           IN  IF why # "none"
               THEN /\ txs' = [txs EXCEPT ![t] = [pc |-> "idle"]]
                    /\ last' = [op |-> "registerStudent", result |-> why]
               ELSE /\ txs' = [txs EXCEPT ![t] =
                                 [pc |-> "checked", h |-> x.h, sem |-> x.sem, u |-> x.u,
                                  r |-> x.r,
                                  occupy |-> marksOccupied(rooms[x.r])]]
                    /\ last' = [op |-> "registerCheck"]
        /\ UNCHANGED <<semVars, today, subs, currentSub>>

\* the assignment, UPDATE rooms SET status = 'occupied' for a single room
\* that was read 'available' (waits for the row lock), the enrollment and
\* the payment
RegisterWrite ==
    \E t \in Txs :
        /\ txs[t].pc = "checked"
        /\ txs[t].occupy => ~RoomLocked(t, txs[t].r)
        /\ txs' = [txs EXCEPT ![t] =
                     [pc |-> "written", h |-> @.h, sem |-> @.sem, u |-> @.u, r |-> @.r,
                      lock |-> @.occupy]]
        /\ last' = [op |-> "registerWrite"]
        /\ UNCHANGED <<semVars, today, subs, currentSub>>

\* COMMIT: the writes of the transaction reach the tables
RegisterCommit ==
    \E t \in Txs :
        /\ txs[t].pc = "written"
        /\ LET x   == txs[t]
               st  == registerStages(Db, x.h, x.sem, x.u, x.r).payment
               out == [st EXCEPT !.rooms[x.r].status =
                           IF x.lock THEN "occupied" ELSE rooms[x.r].status]
           IN  /\ SetDb(out)
               /\ last' = [op |-> "registerCommit", room |-> x.r]
        /\ txs' = [txs EXCEPT ![t] = [pc |-> "idle"]]
        /\ UNCHANGED <<today, subs, currentSub>>

NextRaceRegister ==
    \/ CreateSemester
    \/ SetCurrentDone
    \/ RegisterBegin
    \/ RegisterCheck
    \/ RegisterWrite
    \/ RegisterCommit

SpecRaceRegister == Init /\ [][NextRaceRegister]_vars

\* the requests that set a status or leave it, and set capacity 1 or 2 or
\* leave it
UpdateRoomStatus == UpdateRoomWith({"available", "maintenance"}, {1, 2})

NextOccupy ==
    \/ CreateSemester
    \/ SetCurrentDone
    \/ RegisterStudent
    \/ UpdateRoomStatus

SpecOccupy == Init /\ [][NextOccupy]_vars

NextRegister ==
    \/ CreateSemester
    \/ SetCurrentDone
    \/ RegisterStudentAny

SpecRegister == Init /\ [][NextRegister]_vars

\* the last day, when hostel 1 has one student account and no semester yet
InitEnroll ==
    /\ semesters = <<>>
    /\ enrollments = {}
    /\ assignments = {}
    /\ rooms = [r \in Rooms |-> [hostel_id |-> r,
                                 capacity |-> IF r = 1 THEN 2 ELSE 1,
                                 status |-> "available"]]
    /\ users = [u \in Users |-> IF u = 1 THEN Val(1) ELSE NULL]
    /\ profiles = {1}
    /\ payments = {}
    /\ txs = [t \in Txs |-> [pc |-> "idle"]]
    /\ today = MaxDay
    /\ subs = <<>>
    /\ currentSub = [h \in Hostels |-> NULL]
    /\ last = [op |-> "init"]

NextEnroll ==
    \/ CreateSemester
    \/ Enroll
    \/ DropEnrollment
    \/ UpdateEnrollmentStatus
    \/ Transfer
    \/ RolloverSemester

NextStatus ==
    \/ CreateSemesterIn({1})
    \/ SetCurrentDone
    \/ RegisterStudentOne
    \/ EnrollNoRoom
    \/ DropEnrollment
    \/ UpdateEnrollmentStatus
    \/ TransferDone
    \/ CheckAndEndSemestersDone

SpecStatus == InitEnroll /\ [][NextStatus]_vars

SpecEnroll == InitEnroll /\ [][NextEnroll]_vars

\* the same empty store a day earlier
InitSub ==
    /\ semesters = <<>>
    /\ enrollments = {}
    /\ assignments = {}
    /\ rooms = [r \in Rooms |-> [hostel_id |-> r,
                                 capacity |-> IF r = 1 THEN 2 ELSE 1,
                                 status |-> "available"]]
    /\ users = [u \in Users |-> NULL]
    /\ profiles = {}
    /\ payments = {}
    /\ txs = [t \in Txs |-> [pc |-> "idle"]]
    /\ today = 0
    /\ subs = <<>>
    /\ currentSub = [h \in Hostels |-> NULL]
    /\ last = [op |-> "init"]

NextSub ==
    \/ Subscribe
    \/ Renew
    \/ CheckSubscriptions
    \/ AdvanceDay

SpecSub == InitSub /\ [][NextSub]_vars

\* the start dates of the semesters of SpecReminder: around today and
\* around the seventh day after today, for the days the model runs through
ReminderStarts == {0, 1, 2} \cup {ReminderDays + d : d \in 1..(MaxDay + 1)}

\* Day 1 with one student account and two 'upcoming' semesters of hostel 1
\* whose start dates are drawn from ReminderStarts.
InitReminder ==
    /\ \E s1 \in ReminderStarts, s2 \in ReminderStarts :
          semesters = SemesterCreate(SemesterCreate(<<>>, 1, s1, s1 + 1), 1, s2, s2 + 1)
    /\ enrollments = {}
    /\ assignments = {}
    /\ rooms = [r \in Rooms |-> [hostel_id |-> r,
                                 capacity |-> IF r = 1 THEN 2 ELSE 1,
                                 status |-> "available"]]
    /\ users = [u \in Users |-> IF u = 1 THEN Val(1) ELSE NULL]
    /\ profiles = {1}
    /\ payments = {}
    /\ txs = [t \in Txs |-> [pc |-> "idle"]]
    /\ today = 1
    /\ subs = <<>>
    /\ currentSub = [h \in Hostels |-> NULL]
    /\ last = [op |-> "init"]

NextReminder ==
    \/ SetCurrentDone
    \/ EnrollNoRoom
    \/ DropEnrollment
    \/ SendReminders
    \/ AdvanceDay

SpecReminder == InitReminder /\ [][NextReminder]_vars

NextBilling ==
    \/ Onboard
    \/ Subscribe
    \/ Renew
    \/ CheckSubscriptions
    \/ AdvanceDay

SpecBilling == InitSub /\ [][NextBilling]_vars

----------------------------------------------------------------------------
(* Properties of the semester table (SpecCurrent) *)

CurrentOf(h) == {i \in SemIds : semesters[i].hostel_id = h /\ semesters[i].is_current}

\* C1: after any sequence of semester creations, set-current requests (each
\* for a semester of the hostel it names), status updates, rollovers and
\* daily sweeps, every hostel has at most one semester with is_current = true.
AtMostOneCurrent == \A h \in Hostels : Cardinality(CurrentOf(h)) <= 1

\* A set-current has just replaced the current semester of a hostel: the
\* former one is still 'active' but no longer current.
AtMostOneCurrentWitness ==
    /\ last.op = "setAsCurrent"
    /\ last.fail = "none"
    /\ semesters[last.sem].is_current
    /\ \E j \in SemIds : /\ j # last.sem
                         /\ semesters[j].hostel_id = semesters[last.sem].hostel_id
                         /\ semesters[j].status = "active"
                         /\ ~semesters[j].is_current

\* C3: a set-current that fails at any of its statements leaves is_current
\* and status of every semester as they were before the request.
SetCurrentFailureRestores ==
    [][(last'.op = "setAsCurrent" /\ last'.fail # "none") => semesters' = semesters]_vars

\* A set-current failed at its second UPDATE, after the first one had
\* cleared the flag of the hostel's current semester, which is current again.
SetCurrentFailureWitness ==
    /\ last.op = "setAsCurrent"
    /\ last.fail = "set"
    /\ ~semesters[last.sem].is_current
    /\ \E j \in SemIds : /\ j # last.sem
                         /\ semesters[j].hostel_id = semesters[last.sem].hostel_id
                         /\ semesters[j].is_current

----------------------------------------------------------------------------
(* Properties of the rooms (SpecRooms) *)

\* C2: after any sequence of registrations, deletions, room updates
\* (capacity changes included) and sweeps, the number of active assignments
\* of every room is at most the capacity of the room.
RoomWithinCapacity ==
    \A r \in Rooms : Occupants(assignments, r) <= rooms[r].capacity

----------------------------------------------------------------------------
(* Properties of the subscription job (SpecSub) *)

\* C8: when the UPDATE that marks one subscription 'expired' fails, the run
\* still takes up every subscription that comes later in end_date order.
SubscriptionRunContinues ==
    last.op = "checkSubscriptions" =>
        \A i, j \in DOMAIN last.order :
            (/\ i < j
             /\ last.fail[last.order[i]] = "update"
             /\ DaysLeft(subs[last.order[i]].end_date, today) < 0)
            => last.order[j] \in last.seen

\* C10: an expired notice is sent only for a subscription whose status in
\* the store is already 'expired', never for one that is still 'active'.
ExpiredNoticeAfterMark ==
    last.op = "checkSubscriptions" =>
        \A k \in DOMAIN last.log :
            (last.log[k].ev = "expired" /\ last.log[k].to # {})
                => last.log[k].status = "expired"

\* the notices of kind ev that a run sent to staff member m for subscription s
NoticesTo(log, ev, s, m) ==
    {k \in DOMAIN log : log[k].ev = ev /\ log[k].sub = s /\ m \in log[k].to}

\* C11: after a run, every subscription that was 'active' with an end_date
\* earlier than the time of the run is 'expired', and every staff member of
\* its hostel was sent exactly one expired notice for it.
ExpiredSweepComplete ==
    last.op = "checkSubscriptions" =>
        \A k \in DOMAIN last.order :
            LET s == last.order[k]
            IN  subs[s].end_date * HoursPerDay < today * HoursPerDay + CronHour
                => /\ subs[s].status = "expired"
                   /\ \A m \in Staff[subs[s].hostel_id] :
                        Cardinality(NoticesTo(last.log, "expired", s, m)) = 1

\* C12: in one run an active subscription causes an expiring notification
\* exactly if its daysLeft is one of 30, 15, 7, 3, 1; then every staff member
\* of the hostel gets exactly one notification and the status is unchanged.
\* (A run in which the staff lookup for that subscription throws is left out.)
ExpiringNoticeOnThresholds ==
    last.op = "checkSubscriptions" =>
        \A k \in DOMAIN last.order :
            LET s == last.order[k]
                due == DaysLeft(subs[s].end_date, today) \in notificationDays
                sent == \E j \in DOMAIN last.log :
                            last.log[j].ev = "expiring" /\ last.log[j].sub = s
            IN  last.fail[s] # "lookup" =>
                    /\ sent <=> due
                    /\ due => /\ \A m \in Staff[subs[s].hostel_id] :
                                    Cardinality(NoticesTo(last.log, "expiring", s, m)) = 1
                              /\ subs[s].status = "active"

----------------------------------------------------------------------------
(* Properties of the daily sweep (SpecSweep, SpecEnd) *)

EnrollmentsIn(enr, s) == {e \in enr : e.semester_id = s}
AssignmentsIn(asg, s) == {a \in asg : a.semester_id = s}

\* C4: when the ending of a semester fails at any statement, the status of
\* the semester, its enrollments and its assignments are as before the sweep.
EndFailureRestores ==
    [][last'.op = "checkAndEndSemesters" =>
        \A s \in last'.expired :
            last'.fail[s] # "none" =>
                /\ semesters'[s] = semesters[s]
                /\ EnrollmentsIn(enrollments', s) = EnrollmentsIn(enrollments, s)
                /\ AssignmentsIn(assignments', s) = AssignmentsIn(assignments, s)]_vars

\* C5: a semester ended without a throw is 'completed'; each of its
\* enrollments that was 'active' is 'completed' with completed_at set; each
\* of its assignments whose enrollment is now 'completed' has ended_at set;
\* every enrollment that was not 'active' is unchanged.
EndCompletes ==
    [][last'.op = "checkAndEndSemesters" =>
        \A s \in last'.expired :
            last'.fail[s] = "none" =>
                /\ semesters'[s].status = "completed"
                /\ \A e \in EnrollmentsIn(enrollments, s) :
                        IF e.enrollment_status = "active"
                        THEN \E f \in enrollments' :
                                /\ f = [e EXCEPT !.enrollment_status = "completed",
                                                 !.completed_at = f.completed_at]
                                /\ f.completed_at # NULL
                        ELSE e \in enrollments'
                /\ Cardinality(EnrollmentsIn(enrollments', s))
                        = Cardinality(EnrollmentsIn(enrollments, s))
                /\ \A a \in AssignmentsIn(assignments', s) :
                        (\E f \in enrollments' : /\ f.semester_id = s
                                                 /\ f.user_id = a.user_id
                                                 /\ f.enrollment_status = "completed")
                            => a.ended_at # NULL]_vars

\* A sweep has ended a semester with one student enrolled and one who had
\* dropped out.
EndCompletesWitness ==
    /\ last.op = "checkAndEndSemesters"
    /\ \E s \in last.expired :
        /\ semesters[s].status = "completed"
        /\ \E e \in EnrollmentsIn(enrollments, s) :
              /\ e.enrollment_status = "completed"
              /\ e.completed_at = Val(today)
              /\ \E a \in AssignmentsIn(assignments, s) :
                    a.user_id = e.user_id /\ a.ended_at = Val(today)
        /\ \E e \in EnrollmentsIn(enrollments, s) :
              /\ e.enrollment_status = "dropped"
              /\ e.completed_at # Val(today)

\* C6: the sweep completes an 'active' semester whose end_date is before
\* today (provided the store takes the status update) and changes no other
\* semester: one that ends today stays 'active', one that is not 'active'
\* is not touched.
SweepEndsExactlyExpired ==
    [][last'.op = "checkAndEndSemesters" =>
        \A i \in SemIds :
            IF semesters[i].status = "active" /\ semesters[i].end_date < today
            THEN last'.fail[i] \notin {"begin", "status"}
                    => semesters'[i] = [semesters[i] EXCEPT !.status = "completed"]
            ELSE semesters'[i] = semesters[i]]_vars

\* A sweep has completed one semester and left 'active' another that ends
\* today.
SweepEndsExactlyExpiredWitness ==
    /\ last.op = "checkAndEndSemesters"
    /\ \E i \in last.expired : semesters[i].status = "completed"
    /\ \E j \in SemIds : /\ semesters[j].status = "active"
                         /\ semesters[j].end_date = today

\* C7: when the ending of one semester fails, the same sweep still ends every
\* other expired semester: each one whose own statements succeed is
\* 'completed' and has no 'active' enrollment left.
SweepContinuesAfterFailure ==
    (last.op = "checkAndEndSemesters"
        /\ \E f \in last.expired : last.fail[f] # "none")
    => \A s \in last.expired :
            last.fail[s] = "none" =>
                /\ semesters[s].status = "completed"
                /\ \A e \in EnrollmentsIn(enrollments, s) : e.enrollment_status # "active"

\* The ending of one semester failed and a semester handled after it, with a
\* student enrolled, was completed.
SweepContinuesWitness ==
    /\ last.op = "checkAndEndSemesters"
    /\ \E f \in last.expired, s \in last.expired :
        /\ f < s
        /\ last.fail[f] # "none"
        /\ last.fail[s] = "none"
        /\ semesters[s].status = "completed"
        /\ \E e \in EnrollmentsIn(enrollments, s) : e.enrollment_status = "completed"

\* C9: the sweep sends a semester's end notifications only right after that
\* semester's COMMIT, when the semester is 'completed' in the store; mails
\* that fail leave the semester and its enrollments 'completed'.
NotifyAfterCommit ==
    last.op = "checkAndEndSemesters" =>
        \A k \in DOMAIN last.log :
            last.log[k].ev = "notify" =>
                /\ k > 1
                /\ last.log[k - 1] = [ev |-> "commit", sem |-> last.log[k].sem]
                /\ last.log[k].semStatus = "completed"
                /\ semesters[last.log[k].sem].status = "completed"
                /\ \A e \in EnrollmentsIn(enrollments, last.log[k].sem) :
                        e.enrollment_status # "active"

\* A sweep has committed a semester and every mail to its students failed.
NotifyAfterCommitWitness ==
    /\ last.op = "checkAndEndSemesters"
    /\ \E k \in DOMAIN last.log :
        /\ last.log[k].ev = "notify"
        /\ last.log[k].failed # {}
        /\ \E e \in EnrollmentsIn(enrollments, last.log[k].sem) :
              e.enrollment_status = "completed"
----------------------------------------------------------------------------
(* Enrollments: transfer, enroll, status changes, rollover *)

\* C13: a transfer that succeeds leaves the source enrollment 'transferred'
\* with completed_at set, and exactly one enrollment for (newSemesterId, the
\* source's user), 'active', with the room_id the source had.
TransferMoves ==
    [][(last'.op = "transfer" /\ last'.result = "transferred") =>
        \E old \in EnrollmentOf(enrollments, last'.sem, last'.user) :
            /\ \A e \in EnrollmentOf(enrollments', last'.sem, last'.user) :
                  /\ e.enrollment_status = "transferred"
                  /\ e.completed_at # NULL
            /\ Cardinality(EnrollmentOf(enrollments', last'.sem, last'.user)) = 1
            /\ Cardinality(EnrollmentOf(enrollments', last'.new, last'.user)) = 1
            /\ \A e \in EnrollmentOf(enrollments', last'.new, last'.user) :
                  /\ e.enrollment_status = "active"
                  /\ e.room_id = old.room_id]_vars

\* A transfer has moved an enrollment that has a room.
TransferMovesWitness ==
    /\ last.op = "transfer"
    /\ last.result = "transferred"
    /\ \E e \in EnrollmentOf(enrollments, last.sem, last.user) :
        /\ e.enrollment_status = "transferred"
        /\ e.room_id # NULL
        /\ \E f \in EnrollmentOf(enrollments, last.new, last.user) :
              f.room_id = e.room_id /\ f.enrollment_status = "active"

\* C14: a transfer that fails (no source enrollment, the INSERT refused, a
\* statement that throws) creates and changes no enrollment row: the source
\* keeps its status and its completed_at.
TransferFailureRestores ==
    [][(last'.op = "transfer" /\ last'.result # "transferred") =>
        enrollments' = enrollments]_vars

\* A transfer of an active enrollment was refused because the user already
\* has an enrollment in the other semester.
TransferFailureWitness ==
    /\ last.op = "transfer"
    /\ last.result = "refused"
    /\ last.new # last.sem
    /\ EnrollmentOf(enrollments, last.new, last.user) # {}
    /\ \E e \in EnrollmentOf(enrollments, last.sem, last.user) :
          e.enrollment_status = "active"

\* C15: after enroll for a pair, the first time or again, whatever happened
\* to other pairs or to this pair's row in between, the pair has exactly one
\* row and its status is 'active'.
EnrollIdempotent ==
    [][(last'.op = "enroll" /\ last'.result = "created") =>
        /\ Cardinality(EnrollmentOf(enrollments', last'.sem, last'.user)) = 1
        /\ \A e \in EnrollmentOf(enrollments', last'.sem, last'.user) :
              e.enrollment_status = "active"]_vars

\* enroll was called again for a pair whose enrollment had been dropped, and
\* another pair has a row.
EnrollIdempotentWitness ==
    /\ last.op = "enroll"
    /\ last.result = "created"
    /\ last.before = "dropped"
    /\ \E e \in enrollments : e.semester_id # last.sem
    /\ \E e \in EnrollmentOf(enrollments, last.sem, last.user) :
          e.enrollment_status = "active"

\* C16: completed_at is set exactly when the status is one of completed,
\* dropped, transferred.
CompletedAtIffTerminal ==
    \A e \in enrollments :
        e.completed_at # NULL <=> e.enrollment_status \in TerminalStatuses

\* C16 as amended: an enrollment whose status is completed, dropped or
\* transferred has completed_at set; an 'active' enrollment has a
\* completed_at only if its row had that same completed_at before the step,
\* that is, it was reactivated and kept the old value.
CompletedAtOnTerminal ==
    [][\A e \in enrollments' :
        /\ e.enrollment_status \in TerminalStatuses => e.completed_at # NULL
        /\ (e.enrollment_status = "active" /\ e.completed_at # NULL) =>
              \E f \in EnrollmentOf(enrollments, e.semester_id, e.user_id) :
                  f.completed_at = e.completed_at]_vars

\* A dropped enrollment was reactivated by enroll and kept its completed_at,
\* while another enrollment is in a terminal status.
CompletedAtOnTerminalWitness ==
    /\ last.op = "enroll"
    /\ last.before = "dropped"
    /\ \E e \in EnrollmentOf(enrollments, last.sem, last.user) :
          e.enrollment_status = "active" /\ e.completed_at # NULL
    /\ \E e \in enrollments :
          e.enrollment_status \in TerminalStatuses /\ e.completed_at # NULL

\* C20: a rollover either creates the new semester ('upcoming', not current,
\* the old one's hostel) with an 'active' enrollment (same user, same room)
\* for every 'active' enrollment of the old semester, or creates neither
\* semester nor enrollments; the old semester and its enrollments are not
\* changed.
RolloverAllOrNothing ==
    [][last'.op = "rolloverSemester" =>
        LET old    == last'.old
            new    == Len(semesters) + 1
        IN  /\ \/ semesters' = semesters /\ enrollments' = enrollments
               \/ /\ Len(semesters') = new
                  /\ semesters'[new].hostel_id = semesters[old].hostel_id
                  /\ semesters'[new].status = "upcoming"
                  /\ ~semesters'[new].is_current
                  /\ \A e \in {x \in enrollments :
                                 x.semester_id = old /\ x.enrollment_status = "active"} :
                        \E f \in EnrollmentOf(enrollments', new, e.user_id) :
                            f.room_id = e.room_id /\ f.enrollment_status = "active"
            /\ semesters'[old] = semesters[old]
            /\ {e \in enrollments' : e.semester_id = old}
                 = {e \in enrollments : e.semester_id = old}]_vars
----------------------------------------------------------------------------
(* Registration *)

\* the rows one registration writes exist together
RegisteredTogether(db) ==
    /\ \A u \in Users : db.users[u] # NULL <=> u \in db.profiles
    /\ \A u \in Users, s \in SemSlots :
        LET enrolled == \E e \in EnrollmentOf(db.enrollments, s, u) :
                            e.enrollment_status = "active"
            assigned == \E a \in db.assignments :
                            a.user_id = u /\ a.semester_id = s /\ a.status = "active"
            paid     == [user_id |-> u, semester_id |-> s] \in db.payments
        IN  /\ enrolled <=> assigned
            /\ enrolled <=> paid
            /\ enrolled => db.users[u] # NULL

\* C17: a registration that is rejected (room of another hostel, room full,
\* e-mail of another hostel's account) or in which a statement throws
\* changes no table; one that succeeds leaves the user, the profile, the
\* active room assignment, the active enrollment and the booking payment, so
\* that these rows exist together at all times.
RegistrationAllOrNothing ==
    [][/\ (last'.op = "registerStudent" /\ last'.result # "created") =>
              UNCHANGED semVars
       /\ last'.op = "registerStudent" => RegisteredTogether(Db)']_vars

\* A registration was turned away because the room is full, after another
\* one had succeeded.
RegistrationRejectedWitness ==
    /\ last.op = "registerStudent"
    /\ last.result = "full"
    /\ \E u \in Users : users[u] # NULL /\ u \in profiles
    /\ payments # {}

\* C18: a registration that commits never brings its room over capacity:
\* of two registrations in flight for a room with one free place, at most
\* one commits an active assignment.
ConcurrentRegistrationOneWins ==
    [][last'.op = "registerCommit" =>
        (Occupants(assignments, last'.room) <= rooms[last'.room].capacity
            => Occupants(assignments', last'.room) <= rooms[last'.room].capacity)]_vars

\* C19: when a setAsCurrent call commits, the only current semester of the
\* hostel is its target; so once two concurrent calls for different
\* semesters of one hostel have both committed, exactly one semester is
\* current, the target of the one that committed last.
LastCommitterIsCurrent ==
    last.op = "setCurrentCommit" =>
        CurrentOf(semesters[last.sem].hostel_id) = {last.sem}

\* Two calls for different semesters of one hostel overlapped and both have
\* committed: the target of the first is 'active' and no longer current.
LastCommitterWitness ==
    /\ last.op = "setCurrentCommit"
    /\ last.raced
    /\ \A t \in Txs : txs[t].pc = "idle"
    /\ CurrentOf(semesters[last.sem].hostel_id) = {last.sem}
    /\ \E i \in SemIds \ {last.sem} :
        /\ semesters[i].hostel_id = semesters[last.sem].hostel_id
        /\ semesters[i].status = "active"
        /\ ~semesters[i].is_current

\* the rooms a step has put an active assignment into
RoomsEntered ==
    {r \in Rooms : \E a \in assignments' :
        a.room_id = r /\ a.status = "active" /\ a \notin assignments}

\* C21: a registration that succeeds marks the room it assigns 'occupied'
\* exactly when the room's capacity is 1 and its status was 'available', and
\* changes the status of no room otherwise; a registration into a room of
\* capacity 1 that has an active assignment is rejected.
RegistrationMarksOccupied ==
    [][last'.op = "registerStudent" =>
        /\ \A r \in Rooms :
            /\ rooms'[r].capacity = rooms[r].capacity
            /\ (last'.result = "created" /\ r \in RoomsEntered
                  /\ rooms[r].capacity = 1 /\ rooms[r].status = "available")
                 => rooms'[r].status = "occupied"
            /\ ~(last'.result = "created" /\ r \in RoomsEntered
                  /\ rooms[r].capacity = 1 /\ rooms[r].status = "available")
                 => rooms'[r].status = rooms[r].status
            /\ (rooms[r].capacity = 1 /\ Occupants(assignments, r) >= 1)
                 => r \notin RoomsEntered
        /\ last'.result = "created" => RoomsEntered # {} \/ assignments' = assignments]_vars

\* A registration has marked a single room 'occupied', while a registration
\* into a room under maintenance would leave its status.
RegistrationMarksOccupiedWitness ==
    /\ last.op = "registerStudent"
    /\ last.result = "created"
    /\ \E r \in Rooms :
        /\ rooms[r].capacity = 1
        /\ rooms[r].status = "occupied"
        /\ Occupants(assignments, r) = 1
    /\ \E r \in Rooms : rooms[r].status = "maintenance"
----------------------------------------------------------------------------
(* Properties of the subscription routes (SpecBilling) *)

\* the subscriptions of hostel h, by id
SubscriptionsOf(tbl, h) == {i \in DOMAIN tbl : tbl[i].hostel_id = h}

\* C22: the current_subscription_id of a hostel that has subscriptions is
\* the id of the one created last.
CurrentIsLatest ==
    \A h \in Hostels :
        SubscriptionsOf(subs, h) # {} =>
            /\ currentSub[h] # NULL
            /\ \A i \in SubscriptionsOf(subs, h) : i <= currentSub[h][1]

\* C23: a renew call either adds one 'active' row for the hostel and points
\* current_subscription_id at it, or adds no row and leaves
\* current_subscription_id; the rows that existed are not changed.
RenewAllOrNothing ==
    [][last'.op = "renew" =>
        LET h   == last'.hostel
            new == Len(subs) + 1
        IN  /\ \A i \in DOMAIN subs : subs'[i] = subs[i]
            /\ \/ subs' = subs /\ currentSub' = currentSub
               \/ /\ Len(subs') = new
                  /\ subs'[new].hostel_id = h
                  /\ subs'[new].status = "active"
                  /\ currentSub' = [currentSub EXCEPT ![h] = Val(new)]]_vars

\* a later subscription of the same hostel is the current one
Superseded(s) ==
    LET cur == currentSub[subs[s].hostel_id]
    IN  cur # NULL /\ cur[1] > s

----------------------------------------------------------------------------
(* Properties of the reminders (SpecReminder) *)

\* the students a run has sent a reminder for semester s
Reminded(log, s) == UNION {x.to : x \in {y \in log : y.sem = s}}

\* C24: a run sends a reminder to every student with an enrollment in a
\* semester when the semester is 'upcoming' and starts on a day from today
\* to the seventh day after today, both included, and to none of its
\* students otherwise; it changes no semester, enrollment or assignment.
ReminderWindowInclusive ==
    [][last'.op = "sendReminders" =>
        /\ UNCHANGED <<semesters, enrollments, assignments>>
        /\ \A s \in SemIds :
            Reminded(last'.log, s) =
                IF /\ semesters[s].status = "upcoming"
                   /\ semesters[s].start_date >= today
                   /\ semesters[s].start_date <= today + ReminderDays
                THEN {e.user_id : e \in EnrollmentsIn(enrollments, s)}
                ELSE {}]_vars

\* A run has reminded the student of a semester that starts today and of one
\* that starts on the seventh day.
ReminderWindowWitness ==
    /\ last.op = "sendReminders"
    /\ \E s \in SemIds :
        /\ semesters[s].start_date = today
        /\ Reminded(last.log, s) # {}
    /\ \E s \in SemIds :
        /\ semesters[s].start_date = today + ReminderDays
        /\ Reminded(last.log, s) # {}
----------------------------------------------------------------------------
(* Further properties of the sweep (SpecSweep) *)

\* C25: a run of checkAndEndSemesters that directly follows a run in which
\* nothing threw changes no semester, enrollment or assignment and sends no
\* semester-end notification.
SweepRerunIdle ==
    [][(last'.op = "checkAndEndSemesters" /\ last'.rerun) =>
        /\ UNCHANGED <<semesters, enrollments, assignments>>
        /\ \A k \in DOMAIN last'.log : last'.log[k].ev # "notify"]_vars

\* The sweep has run again directly after a run that completed a semester
\* with an enrollment.
SweepRerunWitness ==
    /\ last.op = "checkAndEndSemesters"
    /\ last.rerun
    /\ \E s \in SemIds :
        /\ semesters[s].status = "completed"
        /\ semesters[s].end_date < today
        /\ \E e \in EnrollmentsIn(enrollments, s) : e.enrollment_status = "completed"
----------------------------------------------------------------------------
(* Further properties of the semester table *)

\* C26: a semester has is_current = true exactly when its status is
\* 'active'.
CurrentIffActive ==
    \A i \in SemIds : semesters[i].is_current <=> semesters[i].status = "active"

\* C26 as amended: a set-current that succeeds leaves its target current and
\* 'active' and the status of every other semester as it was; the manual
\* status update and the sweep leave is_current of every semester as it was.
CurrentAndStatusApart ==
    [][/\ (last'.op = "setAsCurrent" /\ last'.fail = "none") =>
            /\ semesters'[last'.sem].is_current
            /\ semesters'[last'.sem].status = "active"
            /\ \A i \in SemIds \ {last'.sem} :
                  semesters'[i].status = semesters[i].status
       /\ last'.op \in {"updateStatus", "checkAndEndSemesters"} =>
            \A i \in SemIds : semesters'[i].is_current = semesters[i].is_current]_vars

\* The sweep has completed a semester that is still flagged current, and
\* a semester that is not current is 'active'.
CurrentAndStatusApartWitness ==
    /\ last.op = "checkAndEndSemesters"
    /\ \E i \in SemIds : semesters[i].status = "completed" /\ semesters[i].is_current
    /\ \E i \in SemIds : semesters[i].status = "active" /\ ~semesters[i].is_current

\* C27: an assignment with ended_at set has a status other than 'active'.
ClosedAssignmentNotActive ==
    \A a \in assignments : a.ended_at # NULL => a.status # "active"

\* C28: a call setAsCurrent(semesterId, hostelId) changes no semester of
\* another hostel, and one that reports success leaves hostelId with a
\* current semester.
SetCurrentStaysInHostel ==
    [][last'.op = "setAsCurrentCall" =>
        /\ \A i \in SemIds :
              semesters[i].hostel_id # last'.hostel => semesters'[i] = semesters[i]
        /\ last'.fail = "none" =>
              \E i \in SemIds : /\ semesters'[i].hostel_id = last'.hostel
                                /\ semesters'[i].is_current]_vars

\* student u has an 'active' enrollment under semester s whose end_date has
\* passed
OverdueEnrollment(u, s) ==
    /\ s \in SemIds
    /\ semesters[s].end_date < today
    /\ \E e \in EnrollmentOf(enrollments, s, u) : e.enrollment_status = "active"

CompletedEnrollment(u, s) ==
    \E e \in EnrollmentOf(enrollments, s, u) : e.enrollment_status = "completed"

\* C29: while the daily sweep keeps running, every 'active' enrollment under
\* a semester whose end_date has passed is eventually 'completed'.
OverdueEventuallyCompleted ==
    \A u \in Users, s \in SemSlots :
        OverdueEnrollment(u, s) ~> CompletedEnrollment(u, s)
====
